---- MODULE Spec2Model ----
(***************************************************************************)
(* A model of src/csp/assignment5.py: the CSP class (model construction,   *)
(* AC-3 propagation, backtracking search) and create_map_coloring_csp.     *)
(*                                                                         *)
(* Python values are modelled as follows.                                  *)
(*   - a value of a domain is a Python str, here a TLA+ string; Python     *)
(*     iterates a str character by character, which CharsOf tabulates;     *)
(*   - a dict is a sequence of [k, v] records in insertion order;          *)
(*   - an entry of an assignment dict is either a list of values           *)
(*     (kind "list") or, after line 141, the bare str (kind "str");        *)
(*   - the dicts that deepcopy clones live in a heap and are named by      *)
(*     their index, so that aliasing is something the model can express.   *)
(***************************************************************************)
EXTENDS Integers, Sequences, FiniteSets, TLC

VARIABLES
    variables,                    \* self.variables
    heap,                         \* dict objects; heap[SelfDomains] is self.domains
    constraints,                  \* self.constraints
    number_of_backtracks,         \* self.number_of_backtracks
    number_of_backtracks_failed,  \* self.number_of_backtracks_failed
    pc,                           \* position of the control flow
    stack,                        \* frames of the backtrack calls in progress
    cur,                          \* the assignment passed to the running call
    queue,                        \* the queue of the running inference call
    infRet,                       \* value returned by the last inference call
    btRet,                        \* value returned by the last backtrack call
    result,                       \* value returned by backtracking_search
    err                           \* the uncaught exception, "" if none

vars == <<variables, heap, constraints, number_of_backtracks,
          number_of_backtracks_failed, pc, stack, cur, queue, infRet, btRet,
          result, err>>

----------------------------------------------------------------------------
(* Bounds of the model *)

\* most add_variable calls made on a model built through the raw API
MaxVars == 3
\* most cells of a grid row
MaxRow == 4

----------------------------------------------------------------------------
(* Python str, list and dict *)

\* the characters a str yields when iterated
CharsOf(s) ==
    CASE s = "12"    -> <<"1", "2">>
      [] s = "red"   -> <<"r", "e", "d">>
      [] s = "green" -> <<"g", "r", "e", "e", "n">>
      [] s = "blue"  -> <<"b", "l", "u", "e">>
      [] OTHER       -> <<s>>

ListEntry(items) == [kind |-> "list", items |-> items, s |-> ""]
StrEntry(s) == [kind |-> "str", items |-> <<>>, s |-> s]

\* iter(entry): the elements of a list, the characters of a str
Iter(e) == IF e.kind = "list" THEN e.items ELSE CharsOf(e.s)

\* len(entry)
PyLen(e) == Len(Iter(e))

DictHas(d, k) == \E n \in 1..Len(d) : d[n].k = k
DictGet(d, k) == d[CHOOSE n \in 1..Len(d) : d[n].k = k].v
DictKeys(d) == [n \in 1..Len(d) |-> d[n].k]
DictSet(d, k, v) ==
    IF DictHas(d, k)
    THEN [n \in 1..Len(d) |-> IF d[n].k = k THEN [k |-> k, v |-> v] ELSE d[n]]
    ELSE Append(d, [k |-> k, v |-> v])
DictDel(d, k) == SelectSeq(d, LAMBDA e : e.k # k)

\* list.remove(x): drops the first occurrence of x
RECURSIVE ListRemove(_, _)
ListRemove(l, x) ==
    IF l = <<>> THEN <<>>
    ELSE IF Head(l) = x THEN Tail(l)
    ELSE <<Head(l)>> \o ListRemove(Tail(l), x)

\* concatenation of a sequence of sequences
RECURSIVE Flatten(_)
Flatten(ss) == IF ss = <<>> THEN <<>> ELSE Head(ss) \o Flatten(Tail(ss))

SelfDomains == 1
domains == heap[SelfDomains]

----------------------------------------------------------------------------
(* Model construction *)

\* the filter functions handed to add_constraint_one_way
Holds(f, x, y) ==
    CASE f = "neq" -> x # y
      [] f = "eq"  -> x = y

get_all_possible_pairs(a, b) ==
    Flatten([n \in 1..Len(a) |-> [m \in 1..Len(b) |-> <<a[n], b[m]>>]])

add_variable(m, name, domain) ==
    [variables   |-> Append(m.variables, name),
     domains     |-> DictSet(m.domains, name, ListEntry(domain)),
     constraints |-> DictSet(m.constraints, name, <<>>)]

add_constraint_one_way(m, i, j, f) ==
    LET ci == DictGet(m.constraints, i)
        all == IF DictHas(ci, j)
               THEN DictGet(ci, j)
               ELSE get_all_possible_pairs(Iter(DictGet(m.domains, i)),
                                           Iter(DictGet(m.domains, j)))
        kept == SelectSeq(all, LAMBDA p : Holds(f, p[1], p[2]))
    IN  [m EXCEPT !.constraints = DictSet(m.constraints, i, DictSet(ci, j, kept))]

RECURSIVE AllDifferentLoop(_, _)
AllDifferentLoop(m, pairs) ==
    IF pairs = <<>> THEN m
    ELSE LET p == Head(pairs)
         IN  AllDifferentLoop(
                 IF p[1] # p[2] THEN add_constraint_one_way(m, p[1], p[2], "neq") ELSE m,
                 Tail(pairs))

\* a variant that visits each unordered pair once, first to second
add_all_different_forward(m, vs) ==
    AllDifferentLoop(m, Flatten([n \in 1..Len(vs) |->
                                    [k \in 1..(Len(vs) - n) |-> <<vs[n], vs[n + k]>>]]))

add_all_different_constraint(m, vs) ==
    AllDifferentLoop(m, get_all_possible_pairs(vs, vs))

\* the model held in the state
Model == [variables |-> variables, domains |-> domains, constraints |-> constraints]
EmptyModel == [variables |-> <<>>, domains |-> <<>>, constraints |-> <<>>]

get_all_arcs(cons) ==
    Flatten([n \in 1..Len(cons) |->
                [m \in 1..Len(cons[n].v) |-> <<cons[n].k, cons[n].v[m].k>>]])

get_all_neighboring_arcs(cons, var) ==
    LET cv == DictGet(cons, var)
    IN  [n \in 1..Len(cv) |-> <<cv[n].k, var>>]

----------------------------------------------------------------------------
(* AC-3 *)

InSeq(x, s) == \E n \in 1..Len(s) : s[n] = x

\* the for loop of revise: xs are the values still to visit, cp the copy
RECURSIVE ReviseLoop(_, _, _, _, _, _, _)
ReviseLoop(cons, assignment, xi, xj, xs, cp, revised) ==
    IF xs = <<>>
    THEN [err |-> "", revised |-> revised, assignment |-> DictSet(assignment, xi, cp)]
    ELSE IF ~DictHas(assignment, xj)
    THEN [err |-> "KeyError", revised |-> revised, assignment |-> assignment]
    ELSE IF ~(DictHas(cons, xi) /\ DictHas(DictGet(cons, xi), xj))
    THEN [err |-> "KeyError", revised |-> revised, assignment |-> assignment]
    ELSE LET x == Head(xs)
             arcs == get_all_possible_pairs(CharsOf(x), Iter(DictGet(assignment, xj)))
             m == SelectSeq(DictGet(DictGet(cons, xi), xj), LAMBDA v : InSeq(v, arcs))
         IN  IF Len(m) # 0
             THEN ReviseLoop(cons, assignment, xi, xj, Tail(xs), cp, revised)
             ELSE IF cp.kind = "str"
             THEN [err |-> "AttributeError", revised |-> TRUE, assignment |-> assignment]
             ELSE ReviseLoop(cons, assignment, xi, xj, Tail(xs),
                             ListEntry(ListRemove(cp.items, x)), TRUE)

revise(cons, assignment, xi, xj) ==
    IF ~DictHas(assignment, xi)
    THEN [err |-> "KeyError", revised |-> FALSE, assignment |-> assignment]
    ELSE ReviseLoop(cons, assignment, xi, xj, Iter(DictGet(assignment, xi)),
                    DictGet(assignment, xi), FALSE)

\* a variant that leaves xj among the neighbors to visit again
RequeuedWithSource(cons, xi, xj) ==
    SelectSeq(get_all_neighboring_arcs(cons, xi), LAMBDA a : a[1] # xi)

\* the arcs inference appends after revise(assignment, xi, xj) removed a value
Requeued(cons, xi, xj) ==
    SelectSeq(get_all_neighboring_arcs(cons, xi),
              LAMBDA a : a[1] # xi /\ a[1] # xj)

\* one iteration of the while loop of inference (lines 178-185)
WhileBody(cons, assignment, q) ==
    LET xi == Head(q)[1]
        xj == Head(q)[2]
        r  == revise(cons, assignment, xi, xj)
    IN  IF r.err # ""
        THEN [state |-> "raise", err |-> r.err, assignment |-> assignment,
              queue |-> Tail(q)]
        ELSE IF r.revised /\ PyLen(DictGet(r.assignment, xi)) = 0
        THEN [state |-> "return", err |-> "", assignment |-> r.assignment,
              queue |-> Tail(q)]
        ELSE [state |-> "loop", err |-> "", assignment |-> r.assignment,
              queue |-> Tail(q) \o
                        (IF r.revised THEN Requeued(cons, xi, xj) ELSE <<>>)]

\* the while loop of inference from the state b that an iteration left
RECURSIVE InferenceLoop(_, _)
InferenceLoop(cons, b) ==
    IF b.state # "loop"
    THEN [ret |-> FALSE, err |-> b.err, assignment |-> b.assignment]
    ELSE IF b.queue = <<>>
    THEN [ret |-> TRUE, err |-> "", assignment |-> b.assignment]
    ELSE InferenceLoop(cons, WhileBody(cons, b.assignment, b.queue))

\* a whole inference call: the value returned, the exception raised and the
\* assignment as the call leaves it
inference(cons, assignment, q) ==
    InferenceLoop(cons, [state |-> "loop", err |-> "", assignment |-> assignment,
                         queue |-> q])

----------------------------------------------------------------------------
(* Backtracking search *)

NoValue == [kind |-> "none", ref |-> 0]
PyFalse == [kind |-> "False", ref |-> 0]
AssignmentValue(r) == [kind |-> "assignment", ref |-> r]

\* a variant that hands back the object itself instead of a copy
deepcopy_alias(h, r) == [heap |-> h, ref |-> r]

\* copy.deepcopy of the dict heap[r]: a new object with the same content
deepcopy(h, r) == [heap |-> Append(h, h[r]), ref |-> Len(h) + 1]

\* a variant that asks for exactly one value in every domain
AllSingletons(assignment) ==
    \A n \in 1..Len(assignment) : PyLen(assignment[n].v) = 1

\* lines 125-129
Complete(assignment) ==
    \A n \in 1..Len(assignment) : ~(PyLen(assignment[n].v) > 1)

NoKey == "-1"

RECURSIVE SelectLoop(_, _, _, _, _)
SelectLoop(assignment, n, isInf, min, select_key) ==
    IF n > Len(assignment) THEN select_key
    ELSE LET l == PyLen(assignment[n].v)
         IN  IF 1 < l /\ (isInf \/ l < min)
             THEN SelectLoop(assignment, n + 1, FALSE, l, assignment[n].k)
             ELSE SelectLoop(assignment, n + 1, isInf, min, select_key)

\* a variant that keeps the last of the keys with the smallest domain
RECURSIVE SelectLoopLast(_, _, _, _, _)
SelectLoopLast(assignment, n, isInf, min, select_key) ==
    IF n > Len(assignment) THEN select_key
    ELSE LET l == PyLen(assignment[n].v)
         IN  IF 1 < l /\ (isInf \/ l <= min)
             THEN SelectLoopLast(assignment, n + 1, FALSE, l, assignment[n].k)
             ELSE SelectLoopLast(assignment, n + 1, isInf, min, select_key)

select_last_smallest(assignment) == SelectLoopLast(assignment, 1, TRUE, 0, NoKey)

select_unassigned_variable(assignment) == SelectLoop(assignment, 1, TRUE, 0, NoKey)

\* a variant that takes every value backtrack returned for a result
AnyResult(h, v) == v.kind # "none"

\* truth value of what backtrack returned (line 145)
Truthy(h, v) == v.kind = "assignment" /\ Len(h[v.ref]) > 0

\* lines 148-149
DropCandidate(h, f) ==
    [h EXCEPT ![f.new_assignment] = DictDel(@, f.var)]

----------------------------------------------------------------------------
(* create_map_coloring_csp *)

RECURSIVE AddVariables(_, _, _)
AddVariables(m, names, domain) ==
    IF names = <<>> THEN m
    ELSE AddVariables(add_variable(m, Head(names), domain), Tail(names), domain)

\* lines 226-229: both directions of every edge, in the order of the dict
RECURSIVE AddEdges(_, _)
AddEdges(m, es) ==
    IF es = <<>> THEN m
    ELSE LET state == Head(es)[1]
             other_state == Head(es)[2]
         IN  AddEdges(add_constraint_one_way(
                          add_constraint_one_way(m, state, other_state, "neq"),
                          other_state, state, "neq"),
                      Tail(es))

states == <<"WA", "NT", "Q", "NSW", "V", "SA", "T">>
edges == <<  <<"SA", "WA">>, <<"SA", "NT">>, <<"SA", "Q">>, <<"SA", "NSW">>,
             <<"SA", "V">>, <<"NT", "WA">>, <<"NT", "Q">>, <<"NSW", "Q">>,
             <<"NSW", "V">>  >>

create_map_coloring_csp(colors) ==
    AddEdges(AddVariables(EmptyModel, states, colors), edges)

----------------------------------------------------------------------------
(* Inputs *)

\* names and domains handed to the construction API by a caller
ApiNames == {"a", "b"}
ApiDomains == {<<>>, <<"1">>, <<"1", "2">>, <<"3", "1">>, <<"12", "3">>}
Predicates == {"neq", "eq"}

\* a grid row, as create_sudoku_csp registers it: an open cell gets every
\* digit, a given cell its digit alone
RowCell == <<"0-0", "0-1", "0-2", "0-3", "0-4", "0-5">>
RowDomains == {<<"1", "2", "3">>, <<"1">>}

\* the colors of the map, and the same map reduced to two colors
ColorChoices == {<<"red", "green", "blue">>, <<"red", "green">>}

\* a chain of variables, each constrained one way by the variable registered
\* after it
ChainVar == <<"x1", "x2", "x3", "x4", "x5">>
ChainDomains == {<<"1">>, <<"1", "2">>, <<"1", "2", "3">>}

Registered == {variables[n] : n \in 1..Len(variables)}

IsApiModel == Registered \subseteq ApiNames
IsRowModel == Registered \subseteq {RowCell[n] : n \in 1..Len(RowCell)}
IsChainModel == Registered \subseteq {ChainVar[n] : n \in 1..Len(ChainVar)}

AddVariableInputs ==
    (IF IsApiModel /\ Len(variables) < MaxVars
     THEN ApiNames \X ApiDomains ELSE {})
    \cup (IF IsRowModel /\ Len(variables) < MaxRow
          THEN {RowCell[Len(variables) + 1]} \X RowDomains ELSE {})
    \cup (IF IsChainModel /\ Len(variables) < MaxVars
          THEN {ChainVar[Len(variables) + 1]} \X ChainDomains ELSE {})

AddConstraintInputs ==
    {<<i, j>> \in Registered \X Registered : IsApiModel /\ i # j}
    \cup (IF IsChainModel
          THEN {<<variables[n], variables[n + 1]>> : n \in 1..(Len(variables) - 1)}
          ELSE {})

AllDifferentInputs ==
    {<<i, j>> \in Registered \X Registered : IsApiModel /\ i # j}
    \cup {vs \in {variables} : IsRowModel /\ Len(variables) >= 2}
    \cup (IF IsRowModel /\ Len(variables) >= 3 THEN {Tail(variables)} ELSE {})

----------------------------------------------------------------------------
(* The state machine *)

Init ==
    /\ variables = <<>>
    /\ heap = << <<>> >>
    /\ constraints = <<>>
    /\ number_of_backtracks = 0
    /\ number_of_backtracks_failed = 0
    /\ pc = "build"
    /\ stack = <<>>
    /\ cur = 0
    /\ queue = <<>>
    /\ infRet = TRUE
    /\ btRet = NoValue
    /\ result = NoValue
    /\ err = ""

SetModel(m) ==
    /\ variables' = m.variables
    /\ heap' = [heap EXCEPT ![SelfDomains] = m.domains]
    /\ constraints' = m.constraints
    /\ UNCHANGED <<number_of_backtracks, number_of_backtracks_failed, pc, stack,
                   cur, queue, infRet, btRet, result, err>>

AddVariable(name, domain) ==
    /\ pc = "build"
    /\ SetModel(add_variable(Model, name, domain))

AddConstraintOneWay(i, j, f) ==
    /\ pc = "build"
    /\ SetModel(add_constraint_one_way(Model, i, j, f))

AddAllDifferentConstraint(vs) ==
    /\ pc = "build"
    /\ SetModel(add_all_different_constraint(Model, vs))

CreateMapColoringCsp(colors) ==
    /\ pc = "build"
    /\ Model = EmptyModel
    /\ SetModel(create_map_coloring_csp(colors))

\* lines 91-95: clone self.domains and start the pre-search inference
BacktrackingSearch ==
    /\ pc = "build"
    /\ LET c == deepcopy(heap, SelfDomains)
       IN  /\ heap' = c.heap
           /\ cur' = c.ref
    /\ queue' = get_all_arcs(constraints)
    /\ pc' = "inference"
    /\ UNCHANGED <<variables, constraints, number_of_backtracks,
                   number_of_backtracks_failed, stack, infRet, btRet, result, err>>

\* one iteration of the while loop of inference (lines 177-185)
InferenceStep ==
    /\ pc = "inference"
    /\ queue # <<>>
    /\ LET b == WhileBody(constraints, heap[cur], queue)
       IN  /\ heap' = [heap EXCEPT ![cur] = b.assignment]
           /\ queue' = b.queue
           /\ err' = b.err
           /\ pc' = CASE b.state = "raise"  -> "crashed"
                      [] b.state = "return" -> "inferred"
                      [] b.state = "loop"   -> pc
           /\ infRet' = IF b.state = "return" THEN FALSE ELSE infRet
    /\ UNCHANGED <<variables, constraints, number_of_backtracks,
                   number_of_backtracks_failed, stack, cur, btRet, result>>

\* line 186: the queue is empty
InferenceDone ==
    /\ pc = "inference"
    /\ queue = <<>>
    /\ infRet' = TRUE
    /\ pc' = "inferred"
    /\ UNCHANGED <<variables, heap, constraints, number_of_backtracks,
                   number_of_backtracks_failed, stack, cur, queue, btRet, result, err>>

\* lines 95-98: the value of the pre-search inference is dropped and backtrack
\* is called
PreSearchDone ==
    /\ pc = "inferred"
    /\ stack = <<>>
    /\ pc' = "backtrack"
    /\ UNCHANGED <<variables, heap, constraints, number_of_backtracks,
                   number_of_backtracks_failed, stack, cur, queue, infRet, btRet,
                   result, err>>

\* lines 142-149 after the inference of a candidate value
BranchInferred ==
    /\ pc = "inferred"
    /\ stack # <<>>
    /\ IF infRet
       THEN /\ pc' = "backtrack"
            /\ heap' = heap
       ELSE /\ pc' = "loop"
            /\ heap' = DropCandidate(heap, stack[Len(stack)])
    /\ UNCHANGED <<variables, constraints, number_of_backtracks,
                   number_of_backtracks_failed, stack, cur, queue, infRet, btRet,
                   result, err>>

\* lines 124-135: entry of backtrack(heap[cur])
Backtrack ==
    /\ pc = "backtrack"
    /\ LET assignment == heap[cur]
           var == select_unassigned_variable(assignment)
       IN  IF Complete(assignment)
           THEN /\ btRet' = AssignmentValue(cur)
                /\ pc' = "returned"
                /\ UNCHANGED <<number_of_backtracks, stack, err>>
           ELSE /\ number_of_backtracks' = number_of_backtracks + 1
                /\ btRet' = btRet
                /\ IF DictHas(assignment, var)
                   THEN /\ stack' = Append(stack,
                                [assignment |-> cur, var |-> var,
                                 values |-> Iter(DictGet(assignment, var)),
                                 idx |-> 0, new_assignment |-> 0])
                        /\ pc' = "loop"
                        /\ err' = err
                   ELSE /\ stack' = stack
                        /\ pc' = "crashed"
                        /\ err' = "KeyError"
    /\ UNCHANGED <<variables, heap, constraints, number_of_backtracks_failed,
                   cur, queue, infRet, result>>

\* lines 138-142: the next candidate value, cloned, collapsed and propagated
TryValue ==
    /\ pc = "loop"
    /\ LET f == stack[Len(stack)]
       IN  /\ f.idx < Len(f.values)
           /\ LET c == deepcopy(heap, f.assignment)
                  value == f.values[f.idx + 1]
              IN  /\ heap' = [c.heap EXCEPT ![c.ref] = DictSet(@, f.var, StrEntry(value))]
                  /\ cur' = c.ref
                  /\ stack' = [stack EXCEPT ![Len(stack)] =
                                  [f EXCEPT !.idx = f.idx + 1, !.new_assignment = c.ref]]
    /\ queue' = get_all_arcs(constraints)
    /\ pc' = "inference"
    /\ UNCHANGED <<variables, constraints, number_of_backtracks,
                   number_of_backtracks_failed, infRet, btRet, result, err>>

\* lines 151-153: every candidate value failed
Exhausted ==
    /\ pc = "loop"
    /\ LET f == stack[Len(stack)]
       IN  f.idx >= Len(f.values)
    /\ number_of_backtracks_failed' = number_of_backtracks_failed + 1
    /\ stack' = SubSeq(stack, 1, Len(stack) - 1)
    /\ btRet' = PyFalse
    /\ pc' = "returned"
    /\ UNCHANGED <<variables, heap, constraints, number_of_backtracks, cur, queue,
                   infRet, result, err>>

\* lines 144-149: a recursive call returned to the loop of its caller
ReturnToBranch ==
    /\ pc = "returned"
    /\ stack # <<>>
    /\ IF Truthy(heap, btRet)
       THEN /\ stack' = SubSeq(stack, 1, Len(stack) - 1)
            /\ pc' = pc
            /\ heap' = heap
       ELSE /\ stack' = stack
            /\ pc' = "loop"
            /\ heap' = DropCandidate(heap, stack[Len(stack)])
    /\ UNCHANGED <<variables, constraints, number_of_backtracks,
                   number_of_backtracks_failed, cur, queue, infRet, btRet, result, err>>

\* line 98: the root call returned and backtracking_search returns its value
ReturnToSearch ==
    /\ pc = "returned"
    /\ stack = <<>>
    /\ result' = btRet
    /\ pc' = "done"
    /\ UNCHANGED <<variables, heap, constraints, number_of_backtracks,
                   number_of_backtracks_failed, stack, cur, queue, infRet, btRet, err>>

Next ==
    \/ \E in \in AddVariableInputs : AddVariable(in[1], in[2])
    \/ \E in \in AddConstraintInputs : \E f \in Predicates :
           AddConstraintOneWay(in[1], in[2], f)
    \/ \E vs \in AllDifferentInputs : AddAllDifferentConstraint(vs)
    \/ \E colors \in ColorChoices : CreateMapColoringCsp(colors)
    \/ BacktrackingSearch
    \/ InferenceStep
    \/ InferenceDone
    \/ PreSearchDone
    \/ BranchInferred
    \/ Backtrack
    \/ TryValue
    \/ Exhausted
    \/ ReturnToBranch
    \/ ReturnToSearch

Spec == Init /\ [][Next]_vars

----------------------------------------------------------------------------
(* Vocabulary of the properties *)

HasTable(cons, i, j) == DictHas(cons, i) /\ DictHas(DictGet(cons, i), j)
Table(cons, i, j) == DictGet(DictGet(cons, i), j)

\* the values a domain of an assignment holds: the elements of a list, or the
\* one value a variable was collapsed to
ValuesOf(e) == IF e.kind = "list" THEN {e.items[n] : n \in 1..Len(e.items)} ELSE {e.s}

Allowed(cons, i, j, v, w) == InSeq(<<v, w>>, Table(cons, i, j))

\* the tables of (i, j) and (j, i) are both absent, or both stored and mirror
\* images of each other
Mirrored(cons, i, j) ==
    /\ HasTable(cons, i, j) <=> HasTable(cons, j, i)
    /\ HasTable(cons, i, j) =>
           /\ \A n \in 1..Len(Table(cons, i, j)) :
                  Allowed(cons, j, i, Table(cons, i, j)[n][2], Table(cons, i, j)[n][1])
           /\ \A n \in 1..Len(Table(cons, j, i)) :
                  Allowed(cons, i, j, Table(cons, j, i)[n][2], Table(cons, j, i)[n][1])

SymmetricTables == \A i \in Registered : \A j \in Registered : Mirrored(constraints, i, j)

NonEmptyDomains == \A n \in 1..Len(domains) : PyLen(domains[n].v) > 0

\* the total assignments of one registered value per variable that satisfy
\* every stored table
AllValues == UNION {ValuesOf(domains[n].v) : n \in 1..Len(domains)}
SatisfyingAssignments ==
    {a \in [Registered -> AllValues] :
        /\ \A i \in Registered : a[i] \in ValuesOf(DictGet(domains, i))
        /\ \A i \in Registered : \A j \in Registered :
               HasTable(constraints, i, j) => Allowed(constraints, i, j, a[i], a[j])}

ReturnedAssignment == pc = "done" /\ result.kind = "assignment"
ReturnedNoSolution == pc = "done" /\ result = PyFalse
Ended == pc \in {"done", "crashed"}

\* the pre-search inference call of backtracking_search has just returned
PreSearchReturned == pc = "inferred" /\ stack = <<>>

----------------------------------------------------------------------------
(* C1..C5: results of backtracking_search *)

\* C1: whenever backtracking_search returns an assignment, every registered
\* variable maps to a domain of exactly one value, and for every ordered pair
\* with a stored table the pair of those values is in the table.
C1_Soundness ==
    ReturnedAssignment =>
        LET a == heap[result.ref]
        IN  /\ \A i \in Registered :
                   DictHas(a, i) /\ Cardinality(ValuesOf(DictGet(a, i))) = 1
                                 /\ PyLen(DictGet(a, i)) = 1
            /\ \A i \in Registered : \A j \in Registered :
                   HasTable(constraints, i, j) =>
                       \A v \in ValuesOf(DictGet(a, i)) : \A w \in ValuesOf(DictGet(a, j)) :
                           Allowed(constraints, i, j, v, w)

\* C2: when the pre-search inference returns false, backtracking_search
\* returns the no-solution value at once: backtrack is not entered and no
\* counter moves.
C2_PreSearchFailure ==
    [][(PreSearchReturned /\ ~infRet) =>
           /\ pc' = "done"
           /\ result' = PyFalse
           /\ number_of_backtracks' = number_of_backtracks
           /\ number_of_backtracks_failed' = number_of_backtracks_failed]_vars

\* C3: on a model with non-empty domains and symmetric tables that has a
\* satisfying assignment, backtracking_search ends by returning an assignment
\* (it neither returns the no-solution value nor raises).
C3_Completeness ==
    (Ended /\ NonEmptyDomains /\ SymmetricTables /\ SatisfyingAssignments # {}) =>
        ReturnedAssignment

\* C4: on the map of create_map_coloring_csp, backtracking_search returns a
\* coloring with distinct colors on every edge when there are three colors,
\* and the no-solution value when there are two.
IsMap == variables = states
C4_MapColoring ==
    (IsMap /\ Ended) =>
        IF Len(DictGet(domains, "WA").items) = 3
        THEN /\ ReturnedAssignment
             /\ \A n \in 1..Len(edges) :
                    LET x == DictGet(heap[result.ref], edges[n][1])
                        y == DictGet(heap[result.ref], edges[n][2])
                    IN  /\ PyLen(x) = 1 /\ PyLen(y) = 1
                        /\ ValuesOf(x) \subseteq {"red", "green", "blue"}
                        /\ ValuesOf(y) \subseteq {"red", "green", "blue"}
                        /\ ValuesOf(x) # ValuesOf(y)
        ELSE ReturnedNoSolution

\* two cells of an all-different row were registered with the same single value
RowConflict ==
    /\ IsRowModel
    /\ \E i \in Registered : \E j \in Registered :
           /\ i # j
           /\ HasTable(constraints, i, j) /\ HasTable(constraints, j, i)
           /\ Len(DictGet(domains, i).items) = 1
           /\ DictGet(domains, i) = DictGet(domains, j)

\* C5: on a row holding the same given value twice, the pre-search inference
\* returns false with an empty domain, and backtracking_search ends with the
\* no-solution value and without an exception.
C5_UnsatisfiableRow ==
    RowConflict =>
        /\ pc # "crashed"
        /\ pc = "done" => result = PyFalse
        /\ PreSearchReturned =>
               /\ ~infRet
               /\ \E n \in 1..Len(heap[cur]) : PyLen(heap[cur][n].v) = 0

----------------------------------------------------------------------------
(* C6, C7: propagation *)

\* every value left in a domain has a support in every constrained neighbor
ArcConsistent(cons, assignment) ==
    \A n \in 1..Len(assignment) : \A m \in 1..Len(assignment) :
        HasTable(cons, assignment[n].k, assignment[m].k) =>
            \A v \in ValuesOf(assignment[n].v) : \E w \in ValuesOf(assignment[m].v) :
                Allowed(cons, assignment[n].k, assignment[m].k, v, w)

\* an inference call over all arcs has just returned true
InferenceSucceeded == pc = "inferred" /\ infRet

\* C6: whenever inference, called with the queue of all arcs, returns true,
\* every value remaining in assignment[i] has a support in assignment[j] for
\* every ordered pair (i, j) with a stored table.
C6_Consistency == InferenceSucceeded => ArcConsistent(constraints, heap[cur])

\* no domain of b holds a value that the same domain of a does not hold
Shrunk(a, b) ==
    \A n \in 1..Len(b) :
        DictHas(a, b[n].k) /\ ValuesOf(b[n].v) \subseteq ValuesOf(DictGet(a, b[n].k))

\* a second inference call over all arcs returns true and changes nothing
SecondInferenceIdle ==
    LET again == inference(constraints, heap[cur], get_all_arcs(constraints))
    IN  again.ret /\ again.err = "" /\ again.assignment = heap[cur]

\* C7: during an inference call no domain gains a value, and after an
\* inference call over all arcs returned true, a second call over all arcs on
\* the same assignment returns true and leaves every domain unchanged.
C7_ShrinkAndIdempotence ==
    [][/\ pc = "inference" => Shrunk(heap[cur], heap'[cur])
       /\ InferenceSucceeded => SecondInferenceIdle]_vars

----------------------------------------------------------------------------
(* C8: branch isolation *)

\* the dict objects that a call in progress or the model itself holds
HeldRefs == {SelfDomains} \cup {stack[n].assignment : n \in 1..Len(stack)}

\* C8: no step of the search changes the assignment object that a backtrack
\* call in progress received, nor self.domains; the clone made for a candidate
\* is an object of its own that differs from the assignment of its call only in
\* the selected variable.
C8_BranchIsolation ==
    [][/\ pc # "build" => heap'[SelfDomains] = heap[SelfDomains]
       /\ \A n \in 1..Len(stack) :
              heap'[stack[n].assignment] = heap[stack[n].assignment]
       /\ (pc = "loop" /\ pc' = "inference") =>
              LET f == stack[Len(stack)]
              IN  /\ cur' \notin HeldRefs
                  /\ \A n \in 1..Len(heap[f.assignment]) :
                         heap[f.assignment][n].k # f.var =>
                             heap'[cur'][n] = heap[f.assignment][n]]_vars

\* a recursive backtrack call has returned failure to the loop of its caller,
\* after the clone it received was changed by inference
C8_Witness ==
    /\ pc = "returned"
    /\ btRet = PyFalse
    /\ stack # <<>>
    /\ LET f == stack[Len(stack)]
       IN  /\ f.new_assignment # f.assignment
           /\ \E n \in 1..Len(heap[f.assignment]) :
                  /\ heap[f.assignment][n].k # f.var
                  /\ heap[f.new_assignment][n] # heap[f.assignment][n]

----------------------------------------------------------------------------
(* C9, C10: model construction *)

\* C9: add_variable with a registered name fails with DuplicateVariable and
\* leaves the variable list, the domains and the constraint tables unchanged.
C9_DuplicateVariable ==
    [][\A in \in AddVariableInputs :
           (in[1] \in Registered /\ AddVariable(in[1], in[2])) =>
               /\ err' = "DuplicateVariable"
               /\ variables' = variables
               /\ domains' = domains
               /\ constraints' = constraints]_vars

\* C10 as stated: at every point of the construction a table is stored for
\* (i, j) iff one is stored for (j, i), and the two are mirror images.
C10_TablesSymmetric ==
    \A i \in Registered : \A j \in Registered : Mirrored(constraints, i, j)

\* C10 as amended: add_constraint_one_way stores the table of (i, j) alone;
\* each add_all_different_constraint call leaves a table for both orders of
\* every pair of its list, mirror images of each other when the two tables were
\* mirror images or both absent before the call; create_map_coloring_csp
\* leaves symmetric tables.
C10_CallersMirror ==
    [][/\ \A vs \in AllDifferentInputs :
              AddAllDifferentConstraint(vs) =>
                  \A n \in 1..Len(vs) : \A k \in 1..Len(vs) :
                      vs[n] # vs[k] =>
                          /\ HasTable(constraints', vs[n], vs[k])
                          /\ Mirrored(constraints, vs[n], vs[k]) =>
                                 Mirrored(constraints', vs[n], vs[k])
       /\ (\E colors \in ColorChoices : CreateMapColoringCsp(colors)) =>
              \A i \in Registered' : \A j \in Registered' :
                  Mirrored(constraints', i, j)]_vars

\* add_all_different_constraint has acted on a row of three cells or more
C10_Witness ==
    /\ pc = "build"
    /\ IsRowModel
    /\ Len(variables) >= 3
    /\ \A i \in Registered : \A j \in Registered :
           i # j => HasTable(constraints, i, j) /\ Mirrored(constraints, i, j)

----------------------------------------------------------------------------
(* C11: add_all_different_constraint against the one-way calls *)

\* the ordered pairs (i, j), i # j, of a list of variables
OrderedPairs(vs) == SelectSeq(get_all_possible_pairs(vs, vs), LAMBDA p : p[1] # p[2])

\* one add_constraint_one_way call with x # y per pair, the last pair first
RECURSIVE OneByOne(_, _)
OneByOne(m, pairs) ==
    IF pairs = <<>> THEN m
    ELSE add_constraint_one_way(OneByOne(m, Tail(pairs)),
                                Head(pairs)[1], Head(pairs)[2], "neq")

\* the same pairs have a table in c1 and in c2, and the tables are equal
SameTables(c1, c2) ==
    \A i \in Registered : \A j \in Registered :
        /\ HasTable(c1, i, j) <=> HasTable(c2, i, j)
        /\ HasTable(c1, i, j) => Table(c1, i, j) = Table(c2, i, j)

\* C11: add_all_different_constraint(variables) leaves exactly the tables
\* that one add_constraint_one_way call with x # y per ordered pair (i, j),
\* i # j, of the list leaves from the same model, whether or not some of the
\* pairs had a table before; it changes neither the variables nor the domains.
C11_AllDifferentPairwise ==
    [][\A vs \in AllDifferentInputs :
           AddAllDifferentConstraint(vs) =>
               /\ SameTables(constraints', OneByOne(Model, OrderedPairs(vs)).constraints)
               /\ variables' = variables
               /\ domains' = domains]_vars

\* the pair (a, b) had a table of equal values when the all-different
\* constraint was added: that table lost every pair, the table of (b, a) was
\* built from the domains
C11_Witness ==
    /\ pc = "build"
    /\ IsApiModel
    /\ HasTable(constraints, "a", "b") /\ HasTable(constraints, "b", "a")
    /\ DictGet(domains, "a") = ListEntry(<<"1", "2">>)
    /\ DictGet(domains, "b") = ListEntry(<<"3", "1">>)
    /\ Table(constraints, "a", "b") = <<>>
    /\ Table(constraints, "b", "a") =
           << <<"3", "1">>, <<"3", "2">>, <<"1", "2">> >>

----------------------------------------------------------------------------
(* C12: empty domains *)

SomeEmptyDomain == \E n \in 1..Len(domains) : PyLen(domains[n].v) = 0

\* C12: on a model with a variable of empty domain, backtracking_search
\* raises nothing and returns the no-solution value, the pre-search inference
\* returns false, and no inference call returns true while a domain of its
\* assignment is empty or arcs are left in the queue.
C12_EmptyDomain ==
    SomeEmptyDomain =>
        /\ pc # "crashed"
        /\ pc = "done" => result = PyFalse
        /\ PreSearchReturned => ~infRet
        /\ InferenceSucceeded =>
               /\ queue = <<>>
               /\ \A n \in 1..Len(heap[cur]) : PyLen(heap[cur][n].v) # 0

----------------------------------------------------------------------------
(* C13: the collapsed domain of the selected variable *)

\* the number of variables of an assignment whose domain has more than one
\* value
Undecided(assignment) ==
    Cardinality({n \in 1..Len(assignment) : PyLen(assignment[n].v) > 1})

\* backtrack is about to be entered by the recursive call of line 144
ChildCall == pc = "backtrack" /\ stack # <<>>

\* C13: in the clone that a recursive backtrack call receives, the domain of
\* the variable selected by the caller is a list of exactly one value, the
\* candidate value, and the clone has strictly fewer variables with a domain
\* of more than one value than the assignment of the caller.
C13_CollapsedDomain ==
    ChildCall =>
        LET f == stack[Len(stack)]
        IN  /\ DictGet(heap[cur], f.var) = ListEntry(<<f.values[f.idx]>>)
            /\ PyLen(DictGet(heap[cur], f.var)) = 1
            /\ Undecided(heap[cur]) < Undecided(heap[f.assignment])

----------------------------------------------------------------------------
(* C14: the variable backtrack selects *)

\* position of key k in the iteration order of a dict
IndexOf(d, k) == CHOOSE n \in 1..Len(d) : d[n].k = k

\* key k is the first, in iteration order, of the keys of the assignment whose
\* domain has the least size above one
FirstSmallest(assignment, k) ==
    /\ DictHas(assignment, k)
    /\ PyLen(DictGet(assignment, k)) > 1
    /\ \A n \in 1..Len(assignment) :
           LET l == PyLen(assignment[n].v)
           IN  /\ l > 1 => l >= PyLen(DictGet(assignment, k))
               /\ l = PyLen(DictGet(assignment, k)) => IndexOf(assignment, k) <= n

\* C14: when backtrack goes past its completeness test, the key it gets from
\* select_unassigned_variable is a registered variable, never the initial -1,
\* with a domain of size above one; no variable with a domain of size above
\* one has a smaller domain, and of the variables with a domain of that size
\* it is the first in the iteration order of the assignment.
C14_SelectedVariable ==
    [][(pc = "backtrack" /\ ~Complete(heap[cur])) =>
           /\ pc' = "loop"
           /\ Len(stack') = Len(stack) + 1
           /\ LET var == stack'[Len(stack')].var
              IN  /\ var # NoKey
                  /\ var \in Registered
                  /\ FirstSmallest(heap[cur], var)]_vars

\* backtrack selected a variable that comes after a variable with a larger
\* domain and before a variable with a domain of the same size
C14_Witness ==
    /\ pc = "loop"
    /\ stack # <<>>
    /\ LET f == stack[Len(stack)]
           a == heap[f.assignment]
       IN  /\ f.idx = 0
           /\ \E n \in 1..Len(a) :
                  /\ n < IndexOf(a, f.var)
                  /\ PyLen(a[n].v) > PyLen(DictGet(a, f.var))
           /\ \E n \in 1..Len(a) :
                  /\ n > IndexOf(a, f.var)
                  /\ PyLen(a[n].v) = PyLen(DictGet(a, f.var))

----------------------------------------------------------------------------
(* C15: the queue of inference *)

\* the arcs (k, i) of the neighbors k of i other than i and j, in the order
\* in which the tables of i were stored
BackArcs(cons, i, j) ==
    LET ks == SelectSeq(DictKeys(DictGet(cons, i)), LAMBDA k : k # i /\ k # j)
    IN  [n \in 1..Len(ks) |-> <<ks[n], i>>]

\* C15: an iteration of inference that raises nothing takes the arc (i, j) at
\* the front of the queue. When the domain of i lost a value and is not
\* empty, the queue is the rest of the queue followed by the arcs (k, i) of
\* the neighbors k of i, k # i and k # j, in neighbor order, and the loop goes
\* on. When the domain of i lost nothing, the queue is the rest of the queue.
\* When the domain of i became empty, inference returns false at once.
C15_QueueDiscipline ==
    [][(pc = "inference" /\ queue # <<>> /\ pc' # "crashed") =>
           LET i == Head(queue)[1]
               j == Head(queue)[2]
               before == DictGet(heap[cur], i)
               after == DictGet(heap'[cur], i)
           IN  /\ cur' = cur
               /\ (after # before /\ PyLen(after) > 0) =>
                      /\ queue' = Tail(queue) \o BackArcs(constraints, i, j)
                      /\ pc' = "inference"
               /\ after = before =>
                      /\ queue' = Tail(queue)
                      /\ pc' = "inference"
               /\ (after # before /\ PyLen(after) = 0) =>
                      /\ pc' = "inferred"
                      /\ ~infRet'
                      /\ queue' = Tail(queue)]_vars

\* arcs were appended behind the arcs still waiting: the queue of an
\* inference call in progress is longer than the list of all arcs it started
\* with
C15_Witness ==
    /\ pc = "inference"
    /\ Len(queue) > Len(get_all_arcs(constraints))
    /\ \E n \in 1..Len(heap[cur]) : PyLen(heap[cur][n].v) > 1

----------------------------------------------------------------------------
(* C16: the order of the queue *)

\* some orders of the arcs of q: q reversed, and q started at each of its arcs
ArcOrders(q) ==
    {[n \in 1..Len(q) |-> q[Len(q) + 1 - n]]}
    \cup {SubSeq(q, n, Len(q)) \o SubSeq(q, 1, n - 1) : n \in 1..Len(q)}

\* an inference call over all arcs is about to start
InferenceStarts == pc = "inference" /\ queue = get_all_arcs(constraints)

\* C16: with symmetric tables, an inference call over all arcs in another
\* order than that of get_all_arcs returns the same boolean, and when it
\* returns true it leaves the same domain for every variable.
C16_OrderIndependence ==
    (InferenceStarts /\ SymmetricTables) =>
        \A q \in ArcOrders(queue) :
            LET r1 == inference(constraints, heap[cur], queue)
                r2 == inference(constraints, heap[cur], q)
            IN  /\ r1.ret = r2.ret
                /\ r1.err = r2.err
                /\ r1.ret => r1.assignment = r2.assignment

----------------------------------------------------------------------------
(* C17: revise *)

\* value v of xi has a value w in the domain of xj with (v, w) in the table
\* stored for (xi, xj)
Supported(cons, assignment, xi, xj, v) ==
    \E w \in ValuesOf(DictGet(assignment, xj)) : Allowed(cons, xi, xj, v, w)

\* the domain of xi without its unsupported values, in the order it had
SupportedOnly(cons, assignment, xi, xj) ==
    LET e == DictGet(assignment, xi)
    IN  IF e.kind = "list"
        THEN ListEntry(SelectSeq(e.items,
                                 LAMBDA v : Supported(cons, assignment, xi, xj, v)))
        ELSE IF Supported(cons, assignment, xi, xj, e.s) THEN e ELSE ListEntry(<<>>)

\* C17: for the arc (xi, xj) that inference is about to hand to revise,
\* revise raises nothing, leaves in assignment[xi] exactly the values with a
\* support in assignment[xj] under the table stored for (xi, xj), in their
\* order, leaves every other domain as it was, and returns true iff a value
\* was removed.
C17_Revise ==
    (pc = "inference" /\ queue # <<>>) =>
        LET xi == Head(queue)[1]
            xj == Head(queue)[2]
            r == revise(constraints, heap[cur], xi, xj)
            kept == SupportedOnly(constraints, heap[cur], xi, xj)
        IN  /\ r.err = ""
            /\ r.assignment = DictSet(heap[cur], xi, kept)
            /\ r.revised <=> (kept # DictGet(heap[cur], xi))

----------------------------------------------------------------------------
(* C18: the loop over the candidate values *)

\* the candidate of a call failed: its inference returned false, or the
\* recursive call on its clone returned failure
CandidateFailed ==
    /\ stack # <<>>
    /\ \/ pc = "inferred" /\ ~infRet
       \/ pc = "returned" /\ btRet = PyFalse

\* the recursive call on the clone of a candidate returned an assignment
CandidateSolved == stack # <<>> /\ pc = "returned" /\ btRet.kind = "assignment"

\* C18: a backtrack call takes its candidates from the domain of the
\* selected variable, in the stored order, one position after the other and
\* none twice; a candidate that failed leaves the call in its loop at the same
\* position, ready for the next candidate; a candidate whose recursive call
\* returned an assignment ends the call, which returns that assignment to its
\* caller without taking another candidate.
C18_CandidateOrder ==
    [][/\ \A n \in 1..Len(stack) :
              /\ stack[n].values = Iter(DictGet(heap[stack[n].assignment], stack[n].var))
              /\ n <= Len(stack') =>
                     /\ stack'[n].var = stack[n].var
                     /\ stack'[n].assignment = stack[n].assignment
                     /\ stack'[n].idx \in {stack[n].idx, stack[n].idx + 1}
                     /\ n < Len(stack) => stack'[n] = stack[n]
       /\ (pc = "loop" /\ pc' = "inference") =>
              LET f == stack[Len(stack)]
                  g == stack'[Len(stack')]
              IN  /\ Len(stack') = Len(stack)
                  /\ g.idx = f.idx + 1
                  /\ DictGet(heap'[cur'], f.var) = StrEntry(f.values[g.idx])
       /\ CandidateFailed =>
              /\ pc' = "loop"
              /\ Len(stack') = Len(stack)
              /\ stack'[Len(stack')].idx = stack[Len(stack)].idx
       /\ CandidateSolved =>
              /\ pc' = "returned"
              /\ btRet' = btRet
              /\ stack' = SubSeq(stack, 1, Len(stack) - 1)]_vars

\* a call whose first candidate failed got an assignment back for a later
\* candidate, with a candidate of its domain left untried
C18_Witness ==
    /\ CandidateSolved
    /\ LET f == stack[Len(stack)]
       IN  f.idx >= 2 /\ f.idx < Len(f.values)

----------------------------------------------------------------------------
(* C19: termination *)

\* C19: on a model with symmetric tables, an iteration of inference either
\* shortens the queue or takes a value from a domain (and adds none), so the
\* call ends with the queue drained or a domain emptied; no step of
\* backtracking_search raises, and backtracking_search ends by returning an
\* assignment or the no-solution value.
C19_Termination ==
    [][SymmetricTables =>
           /\ (pc = "inference" /\ queue # <<>> /\ pc' = "inference") =>
                  /\ Shrunk(heap[cur], heap'[cur])
                  /\ Len(queue') < Len(queue) \/ heap'[cur] # heap[cur]
           /\ (pc = "inference" /\ pc' = "inferred") =>
                  \/ queue = <<>> /\ infRet'
                  \/ ~infRet' /\ \E n \in 1..Len(heap'[cur]) : PyLen(heap'[cur][n].v) = 0
           /\ pc' # "crashed"
           /\ pc' = "done" => result' = PyFalse \/ result'.kind = "assignment"]_vars

----------------------------------------------------------------------------
(* C20: the counters *)

\* a backtrack call is entered with an assignment that has a domain of more
\* than one value
EntersIncomplete == pc = "backtrack" /\ Undecided(heap[cur]) > 0

\* a backtrack call has gone through all its candidates
CallExhausted ==
    pc = "loop" /\ stack[Len(stack)].idx >= Len(stack[Len(stack)].values)

\* no assignment has been returned by a backtrack call yet
Searching ==
    \/ pc \in {"inference", "inferred", "backtrack", "loop"}
    \/ pc = "returned" /\ btRet = PyFalse

\* C20: number_of_backtracks goes up by one exactly in the backtrack calls
\* that pass the completeness test, number_of_backtracks_failed by one exactly
\* in the calls that run out of candidates; failed never exceeds backtracks;
\* while no assignment has been returned their difference is the number of
\* calls in progress, one per variable selected on the current path, and it
\* stays at that number from the call that finds the assignment complete until
\* backtracking_search returns it; the two are equal when the root call
\* returns failure.
C20_Counters ==
    [][/\ number_of_backtracks' =
              number_of_backtracks + (IF EntersIncomplete THEN 1 ELSE 0)
       /\ number_of_backtracks_failed' =
              number_of_backtracks_failed + (IF CallExhausted THEN 1 ELSE 0)
       /\ number_of_backtracks_failed' <= number_of_backtracks'
       /\ Searching' =>
              number_of_backtracks' - number_of_backtracks_failed' = Len(stack')
       /\ (pc' = "done" /\ result' = PyFalse) =>
              number_of_backtracks_failed' = number_of_backtracks']_vars

\* backtracking_search returned an assignment found two selections deep,
\* after a call had run out of candidates
C20_Witness ==
    /\ ReturnedAssignment
    /\ number_of_backtracks_failed >= 1
    /\ number_of_backtracks - number_of_backtracks_failed >= 2

====
